---- MODULE Spec2Model ----
(***************************************************************************)
(* A model of ssg/build_yaml.py: the entity classes Profile, Value,        *)
(* Benchmark, Group and Rule (from_yaml, to_xml_element, add_value,        *)
(* add_group, add_rule), and the                                           *)
(* recursive directory compiler add_from_directory.                        *)
(*                                                                         *)
(* Python values are modelled as follows.                                  *)
(*   - a dict is a function whose DOMAIN is the set of its keys;           *)
(*   - None is the string None below;                                      *)
(*   - a string that the code inspects character by character (a Profile   *)
(*     selection, an identifier or reference key) is a sequence of         *)
(*     one-character strings; any other string is a TLA+ string;           *)
(*   - an exception is a result record [status |-> "error", error |-> e].  *)
(***************************************************************************)
EXTENDS Integers, Sequences, FiniteSets, TLC

VARIABLES
    \* ---- one descriptor parsed and rendered (SpecEntity) ----
    yaml_file,      \* the descriptor handed to from_yaml: [kind, name, null, data]
    parsed,         \* what from_yaml returned or raised
    rendered,       \* what to_xml_element returned or raised
    epc,            \* "start" | "parsed" | "rendered"
    \* ---- the objects of a run (SpecApi, Spec) ----
    heap,           \* the entities built so far, by reference
    err,            \* the exception raised, "" if none
    \* ---- one run of add_from_directory (Spec) ----
    action,         \* "build" | "list-inputs"
    dirs,           \* the directories of the tree, as far as os.listdir has read them
    stack,          \* the activations of add_from_directory, the running one last
    trace,          \* what the run did so far: files parsed, paths printed, adds, calls
    written,        \* how many times the output file was written
    inputs,         \* profiles_dir and the bash remediation functions file, once read
    contents        \* path -> content of the descriptors of the tree opened so far

entityVars == <<yaml_file, parsed, rendered, epc>>

objectVars == <<heap, err>>

treeVars == <<action, dirs, stack, trace, written, inputs, contents>>

vars == <<entityVars, objectVars, treeVars>>

None == "<None>"

\* ---------------------------------------------------------------- bounds
MaxStrLen == 2          \* longest Profile selection string
MaxSelections == 2      \* longest Profile selections list
MaxItems == 2           \* most entries of an identifiers or references mapping
MaxObjects == 3         \* most entities built in a run of SpecApi
MaxEntries == 6         \* most entries (descriptors and subdirectories) of a tree

\* ------------------------------------------------------- python helpers
\* Python truthiness of an optional string: None and "" are falsy.
Truthy(s) == s # None /\ s # ""

Ok(e) == [status |-> "ok", entity |-> e]
ReturnNone == [status |-> "none"]
Raise(e) == [status |-> "error", error |-> e]

\* dict.pop(key, default)
Pop(d, key, default) == IF key \in DOMAIN d THEN d[key] ELSE default

\* del d[key] / the dict left after d.pop(key, ...)
Del(d, key) == [k \in DOMAIN d \ {key} |-> d[k]]

DelAll(d, ks) == [k \in DOMAIN d \ ks |-> d[k]]

\* utils.required_key(_dict, _key): the value, or a "missing key" error.
HasRequiredKey(d, key) == key \in DOMAIN d

MissingKey(key) == "ValueError: required key missing"

Unparsed == "RuntimeError: Unparsed YAML data"

\* str.startswith(c) for a one-character c
StartsWith(s, c) == Len(s) > 0 /\ s[1] = c

\* c in s
Contains(s, c) == \E i \in 1..Len(s) : s[i] = c

\* s.find(c) + 1: the first position of c in s (0 if none)
FirstIndex(s, c) ==
    IF Contains(s, c) THEN CHOOSE i \in 1..Len(s) : s[i] = c /\ \A j \in 1..(i - 1) : s[j] # c
    ELSE 0

\* s.split(c, 1) when c is in s: the text before and after the first c
Split1(s, c) ==
    LET i == FirstIndex(s, c) IN <<SubSeq(s, 1, i - 1), SubSeq(s, i + 1, Len(s))>>

\* s.split(c): the parts between every occurrence of c
RECURSIVE Split(_, _)
Split(s, c) ==
    IF ~Contains(s, c) THEN <<s>>
    ELSE <<Split1(s, c)[1]>> \o Split(Split1(s, c)[2], c)

\* ------------------------------------------------------------------ XML
\* ET.Element(tag)
Element(tag) == [tag |-> tag, attrib |-> <<>>, children |-> <<>>]

\* element.set(name, value): a later set of the same name overwrites
SetAttr(el, name, value) == [el EXCEPT !.attrib = (name :> value) @@ @]

\* parent.append(child) / ET.SubElement(parent, ...) once the child is complete
Append_(el, child) == [el EXCEPT !.children = Append(@, child)]

\* Markup that ET.fromstring cannot parse once wrapped in <tag>...</tag>.
MalformedMarkup == {"<b>unclosed"}

AddSubElementFails(data) == data \in MalformedMarkup

SubElementError == "RuntimeError: Error adding subelement"

\* add_sub_element(parent, tag, data), for well-formed data: the new child
SubElementOf(tag, data) == [tag |-> tag, attrib |-> <<>>, children |-> <<>>, text |-> data]

\* ============================================================== Profile
ExtraKeys == {"unknown_key"}

\* Profile.from_yaml(yaml_file, env_yaml)
Profile_from_yaml(f) ==
    IF f.null THEN ReturnNone
    ELSE LET y0 == f.data IN
    IF ~HasRequiredKey(y0, "title") THEN Raise(MissingKey("title"))
    ELSE LET y1 == Del(y0, "title") IN
    IF ~HasRequiredKey(y1, "description") THEN Raise(MissingKey("description"))
    ELSE LET y2 == Del(y1, "description")
             extends == Pop(y2, "extends", None)
             y3 == Del(y2, "extends") IN
    IF ~HasRequiredKey(y3, "selections") THEN Raise(MissingKey("selections"))
    ELSE LET y4 == Del(y3, "selections") IN
    IF DOMAIN y4 # {} THEN Raise(Unparsed)
    ELSE Ok([kind |-> "Profile", id_ |-> f.name, title |-> y0["title"],
             description |-> y1["description"], extends |-> extends,
             selections |-> y3["selections"]])

\* The branches of the selections loop taken in the wrong order ("=" first).
SelectionElementEqFirst(selection) ==
    IF Contains(selection, "=")
    THEN SetAttr(SetAttr(Element("refine-value"), "idref", Split1(selection, "=")[1]),
                 "selector", Split1(selection, "=")[2])
    ELSE IF StartsWith(selection, "!")
    THEN SetAttr(SetAttr(Element("select"), "idref", Tail(selection)), "selected", "false")
    ELSE SetAttr(SetAttr(Element("select"), "idref", selection), "selected", "true")

\* The body of the loop over self.selections: the element appended for one string.
SelectionElement(selection) ==
    IF StartsWith(selection, "!")
    THEN SetAttr(SetAttr(Element("select"), "idref", Tail(selection)), "selected", "false")
    ELSE IF Contains(selection, "=")
    THEN SetAttr(SetAttr(Element("refine-value"), "idref", Split1(selection, "=")[1]),
                 "selector", Split1(selection, "=")[2])
    ELSE SetAttr(SetAttr(Element("select"), "idref", selection), "selected", "true")

\* for selection in self.selections: ... element.append(...)
RECURSIVE AppendSelections(_, _)
AppendSelections(element, selections) ==
    IF selections = <<>> THEN element
    ELSE AppendSelections(Append_(element, SelectionElement(Head(selections))),
                          Tail(selections))

\* Profile.to_xml_element(self)
Profile_to_xml_element(self) ==
    LET e0 == SetAttr(Element("Profile"), "id", self.id_)
        e1 == IF Truthy(self.extends) THEN SetAttr(e0, "extends", self.extends) ELSE e0
    IN
    IF AddSubElementFails(self.title) THEN Raise(SubElementError)
    ELSE LET e2 == Append_(e1, SetAttr(SubElementOf("title", self.title), "override", "true")) IN
    IF AddSubElementFails(self.description) THEN Raise(SubElementError)
    ELSE LET e3 == Append_(e2, SetAttr(SubElementOf("description", self.description),
                                       "override", "true"))
         IN Ok(AppendSelections(e3, self.selections))

\* ================================================================ Value
PossibleOperators ==
    {"equals", "not equal", "greater than", "less than", "greater than or equal",
     "less than or equal", "pattern match"}

\* A YAML scalar that is not a Python string (interactive: true, cce: 27277).
NonString == "<not a str>"

IsStr(v) == v # NonString

\* str.lower() on the strings of the model
Lower(v) == IF v = "True" THEN "true" ELSE IF v = "FALSE" THEN "false" ELSE v

\* for warning_list in warnings: if len(warning_list) != 1: raise
WarningsValid(warnings) == \A i \in 1..Len(warnings) : Cardinality(DOMAIN warnings[i]) = 1

WarningsError == "ValueError: Only one key/value pair should exist for each dictionary"

\* Value.from_yaml(yaml_file, env_yaml)
Value_from_yaml(f) ==
    IF f.null THEN ReturnNone
    ELSE LET y0 == f.data IN
    IF ~HasRequiredKey(y0, "title") THEN Raise(MissingKey("title"))
    ELSE LET y1 == Del(y0, "title") IN
    IF ~HasRequiredKey(y1, "description") THEN Raise(MissingKey("description"))
    ELSE LET y2 == Del(y1, "description") IN
    IF ~HasRequiredKey(y2, "type") THEN Raise(MissingKey("type"))
    ELSE LET y3 == Del(y2, "type")
             operator == Pop(y3, "operator", "equals")
             y4 == Del(y3, "operator") IN
    IF operator \notin PossibleOperators THEN Raise("ValueError: Found an invalid operator value")
    ELSE LET interactive == Pop(y4, "interactive", "false")
             y5 == Del(y4, "interactive") IN
    IF ~IsStr(interactive) THEN Raise("AttributeError: object has no attribute 'lower'")
    ELSE IF ~HasRequiredKey(y5, "options") THEN Raise(MissingKey("options"))
    ELSE LET y6 == Del(y5, "options")
             warnings == Pop(y6, "warnings", <<>>)
             y7 == Del(y6, "warnings") IN
    IF ~WarningsValid(warnings) THEN Raise(WarningsError)
    ELSE IF DOMAIN y7 # {} THEN Raise(Unparsed)
    ELSE Ok([kind |-> "Value", id_ |-> f.name, title |-> y0["title"],
             description |-> y1["description"], type_ |-> y2["type"],
             operator |-> operator, interactive |-> (Lower(interactive) = "true"),
             options |-> y5["options"], warnings |-> warnings])

\* ============================================================ Benchmark
\* constants.PRODUCT_TO_CPE_MAPPING: the products it has an entry for.
KnownProducts == {"rhel7"}

\* PRODUCT_TO_CPE_MAPPING[product_yaml["product"]]
CpesOf(product) == <<"cpe", product>>

\* "notice" deleted whatever is left in it.
AfterNoticeAlwaysDeleted(yaml_contents, notice_contents) == Del(yaml_contents, "notice")

\* if not notice_contents: del yaml_contents["notice"]
\* (notice_contents is yaml_contents["notice"] itself, with "id" and
\* "description" deleted from it)
AfterNotice(yaml_contents, notice_contents) ==
    IF DOMAIN notice_contents = {} THEN Del(yaml_contents, "notice")
    ELSE [yaml_contents EXCEPT !["notice"] = notice_contents]

\* Benchmark.from_yaml(yaml_file, id_, product_yaml); f.product is
\* product_yaml["product"], or None when product_yaml is None.
Benchmark_from_yaml(f) ==
    IF f.null THEN ReturnNone
    ELSE LET y0 == f.data IN
    IF ~HasRequiredKey(y0, "title") THEN Raise(MissingKey("title"))
    ELSE LET y1 == Del(y0, "title") IN
    IF ~HasRequiredKey(y1, "status") THEN Raise(MissingKey("status"))
    ELSE LET y2 == Del(y1, "status") IN
    IF ~HasRequiredKey(y2, "description") THEN Raise(MissingKey("description"))
    ELSE LET y3 == Del(y2, "description") IN
    IF ~HasRequiredKey(y3, "notice") THEN Raise(MissingKey("notice"))
    ELSE LET n0 == y3["notice"] IN
    IF ~HasRequiredKey(n0, "id") THEN Raise(MissingKey("id"))
    ELSE LET n1 == Del(n0, "id") IN
    IF ~HasRequiredKey(n1, "description") THEN Raise(MissingKey("description"))
    ELSE LET n2 == Del(n1, "description")
             y4 == AfterNotice(y3, n2) IN
    IF ~HasRequiredKey(y4, "front-matter") THEN Raise(MissingKey("front-matter"))
    ELSE LET y5 == Del(y4, "front-matter") IN
    IF ~HasRequiredKey(y5, "rear-matter") THEN Raise(MissingKey("rear-matter"))
    ELSE LET y6 == Del(y5, "rear-matter") IN
    IF ~HasRequiredKey(y6, "version") THEN Raise(MissingKey("version"))
    ELSE LET y7 == Del(y6, "version") IN
    IF DOMAIN y7 # {} THEN Raise(Unparsed)
    ELSE IF f.product # None /\ f.product \notin KnownProducts
    THEN Raise("KeyError: product")
    ELSE Ok([kind |-> "Benchmark", id_ |-> "product-name", title |-> y0["title"],
             status |-> y1["status"], description |-> y2["description"],
             notice_id |-> n0["id"], notice_description |-> n1["description"],
             front_matter |-> y4["front-matter"], rear_matter |-> y5["rear-matter"],
             version |-> y6["version"],
             cpes |-> IF f.product # None THEN CpesOf(f.product) ELSE <<>>])

\* ================================================================ Group
\* Group.from_yaml(yaml_file, env_yaml)
Group_from_yaml(f) ==
    IF f.null THEN ReturnNone
    ELSE LET y0 == f.data
             prodtype == Pop(y0, "prodtype", "all")
             y1 == Del(y0, "prodtype") IN
    IF ~HasRequiredKey(y1, "title") THEN Raise(MissingKey("title"))
    ELSE LET y2 == Del(y1, "title") IN
    IF ~HasRequiredKey(y2, "description") THEN Raise(MissingKey("description"))
    ELSE LET y3 == Del(y2, "description")
             warnings == Pop(y3, "warnings", <<>>)
             y4 == Del(y3, "warnings")
             platform == Pop(y4, "platform", None)
             y5 == Del(y4, "platform") IN
    IF ~WarningsValid(warnings) THEN Raise(WarningsError)
    ELSE IF DOMAIN y5 # {} THEN Raise(Unparsed)
    ELSE Ok([kind |-> "Group", id_ |-> f.name, prodtype |-> prodtype,
             title |-> y1["title"], description |-> y2["description"],
             warnings |-> warnings, platform |-> platform])

\* ================================================================= Rule
\* checks.is_cce_valid("CCE-" + value): the values that are well-formed CCE codes.
ValidCceValues == {"27277-1"}

\* str.strip() on the values of the model
Strip(v) == IF v \in {"", " "} THEN "" ELSE v

\* ident_type[0:3] == 'cce'
HasCcePrefix(key) == Len(key) >= 3 /\ SubSeq(key, 1, 3) = <<"c", "c", "e">>

\* A dict key that is not a Python string (a YAML integer key).
NonStringKey == <<NonString>>

EmptyIdentifiers == "ValueError: Empty identifier section"

\* A mapping-valued YAML field: "identifiers:" with nothing under it loads as
\* None (null), otherwise as a dict, kept as the list of its items in order.
Mapping(items) == [null |-> FALSE, items |-> items]

NoneMapping == [null |-> TRUE, items |-> <<>>]

\* The loop body of validate_identifiers with the blank-value test left out.
IdentifierItemErrorNoBlank(item) ==
    IF item[1] = NonStringKey \/ ~IsStr(item[2])
    THEN "ValueError: Identifiers and values must be strings"
    ELSE IF HasCcePrefix(item[1]) /\ item[2] \notin ValidCceValues
    THEN "ValueError: CCE Identifiers must be valid"
    ELSE ""

\* The body of the loop of validate_identifiers for one item: "" or the error.
IdentifierItemError(item) ==
    IF item[1] = NonStringKey \/ ~IsStr(item[2])
    THEN "ValueError: Identifiers and values must be strings"
    ELSE IF Strip(item[2]) = "" THEN "ValueError: Identifiers must not be empty"
    ELSE IF HasCcePrefix(item[1]) /\ item[2] \notin ValidCceValues
    THEN "ValueError: CCE Identifiers must be valid"
    ELSE ""

\* The body of the loop of validate_references for one item: "" or the error.
ReferenceItemError(item) ==
    IF item[1] = NonStringKey \/ ~IsStr(item[2])
    THEN "ValueError: References and values must be strings"
    ELSE IF Strip(item[2]) = "" THEN "ValueError: References must not be empty"
    ELSE ""

ItemError(item, what) ==
    IF what = "identifiers" THEN IdentifierItemError(item) ELSE ReferenceItemError(item)

\* for key, val in mapping.items(): ... raise: "" or the first error raised.
\* items is the list of the dict's items in its order.
RECURSIVE ItemsError(_, _)
ItemsError(items, what) ==
    IF items = <<>> THEN ""
    ELSE IF ItemError(Head(items), what) # "" THEN ItemError(Head(items), what)
    ELSE ItemsError(Tail(items), what)

\* Rule.validate_identifiers(self, yaml_file): "" or the error raised.
validate_identifiers(identifiers) ==
    IF identifiers.null THEN EmptyIdentifiers
    ELSE ItemsError(identifiers.items, "identifiers")

\* Rule.validate_references(self, yaml_file): "" or the error raised.
validate_references(references) ==
    IF references.null THEN "ValueError: Empty references section"
    ELSE ItemsError(references.items, "references")

\* Rule.from_yaml(yaml_file, env_yaml)
Rule_from_yaml(f) ==
    IF f.null THEN ReturnNone
    ELSE LET y0 == f.data
             prodtype == Pop(y0, "prodtype", "all")
             y1 == Del(y0, "prodtype") IN
    IF ~HasRequiredKey(y1, "title") THEN Raise(MissingKey("title"))
    ELSE LET y2 == Del(y1, "title") IN
    IF ~HasRequiredKey(y2, "description") THEN Raise(MissingKey("description"))
    ELSE LET y3 == Del(y2, "description") IN
    IF ~HasRequiredKey(y3, "rationale") THEN Raise(MissingKey("rationale"))
    ELSE LET y4 == Del(y3, "rationale") IN
    IF ~HasRequiredKey(y4, "severity") THEN Raise(MissingKey("severity"))
    ELSE LET y5 == Del(y4, "severity")
             references == Pop(y5, "references", Mapping(<<>>))
             identifiers == Pop(y5, "identifiers", Mapping(<<>>))
             ocil_clause == Pop(y5, "ocil_clause", None)
             ocil == Pop(y5, "ocil", None)
             external_oval == Pop(y5, "oval_external_content", None)
             warnings == Pop(y5, "warnings", <<>>)
             platform == Pop(y5, "platform", None)
             y6 == DelAll(y5, {"references", "identifiers", "ocil_clause", "ocil",
                               "oval_external_content", "warnings", "platform"}) IN
    IF ~WarningsValid(warnings) THEN Raise(WarningsError)
    ELSE IF DOMAIN y6 # {} THEN Raise(Unparsed)
    ELSE IF validate_identifiers(identifiers) # "" THEN Raise(validate_identifiers(identifiers))
    ELSE IF validate_references(references) # "" THEN Raise(validate_references(references))
    ELSE Ok([kind |-> "Rule", id_ |-> f.name, prodtype |-> prodtype,
             title |-> y1["title"], description |-> y2["description"],
             rationale |-> y3["rationale"], severity |-> y4["severity"],
             references |-> references, identifiers |-> identifiers,
             ocil_clause |-> ocil_clause, ocil |-> ocil, external_oval |-> external_oval,
             warnings |-> warnings, platform |-> platform])

\* constants.XCCDF_PLATFORM_TO_CPE: the platform names it has an entry for.
KnownPlatforms == {"machine", "container"}

PlatformCpe(platform) == <<"cpe", platform>>

UnsupportedPlatform == "ValueError: Unsupported platform"

\* add_sub_element(rule, tag, data) for each of texts in turn: the element
\* with the children appended, or the error of the first one that fails.
RECURSIVE AddSubElements(_, _)
AddSubElements(el, texts) ==
    IF texts = <<>> THEN Ok(el)
    ELSE IF AddSubElementFails(Head(texts)[2]) THEN Raise(SubElementError)
    ELSE AddSubElements(Append_(el, SubElementOf(Head(texts)[1], Head(texts)[2])), Tail(texts))

\* The attribute name 'prodtype' of an ident or ref element, whose other
\* attribute names are identifier or reference keys.
ProdtypeAttr == <<"prodtype">>

\* The loop over self.identifiers.items() (tag "ident") or
\* self.references.items() (tag "ref"): st is [rule, main], the Rule element
\* and the shared element.
RECURSIVE AddQualified(_, _, _)
AddQualified(st, items, tag) ==
    IF items = <<>> THEN [status |-> "ok", rule |-> st.rule, main |-> st.main]
    ELSE LET key == Head(items)[1]
             val == Head(items)[2] IN
    IF Contains(key, "@")
    THEN LET parts == Split(key, "@") IN
         IF Len(parts) # 2 THEN Raise("ValueError: too many values to unpack")
         ELSE AddQualified(
                 [st EXCEPT !.rule = Append_(@, SetAttr(SetAttr(Element(tag), parts[1], val),
                                                        ProdtypeAttr, parts[2]))],
                 Tail(items), tag)
    ELSE AddQualified([st EXCEPT !.main = SetAttr(@, key, val)], Tail(items), tag)

\* main_ident = ET.Element('ident'); the loop; if main_ident.attrib: rule.append(main_ident)
AddIdentsOrRefsAlways(rule, items, tag) ==
    LET r == AddQualified([rule |-> rule, main |-> Element(tag)], items, tag) IN
    IF r.status # "ok" THEN r
    ELSE Ok(Append_(r.rule, r.main))

AddIdentsOrRefs(rule, items, tag) ==
    LET r == AddQualified([rule |-> rule, main |-> Element(tag)], items, tag) IN
    IF r.status # "ok" THEN r
    ELSE Ok(IF DOMAIN r.main.attrib # {} THEN Append_(r.rule, r.main) ELSE r.rule)

\* The external-OVAL branch with the self-referencing pointer always added.
AddCheckOrOvalBoth(rule, self) ==
    LET withOval == Append_(rule, SetAttr(Element("oval"), "id", self.id_)) IN
    IF Truthy(self.external_oval)
    THEN Append_(withOval,
                 Append_(SetAttr(Element("check"), "system",
                                 "http://oval.mitre.org/XMLSchema/oval-definitions-5"),
                         SetAttr(Element("check-content-ref"), "href", self.external_oval)))
    ELSE withOval

\* if self.external_oval: <check> ... else: <oval id=self.id_>
AddCheckOrOval(rule, self) ==
    IF Truthy(self.external_oval)
    THEN Append_(rule,
                 Append_(SetAttr(Element("check"), "system",
                                 "http://oval.mitre.org/XMLSchema/oval-definitions-5"),
                         SetAttr(Element("check-content-ref"), "href", self.external_oval)))
    ELSE Append_(rule, SetAttr(Element("oval"), "id", self.id_))

\* add_warning_elements(element, warnings): the (category, text) pairs as
\* add_sub_element arguments for tag "warning"; the category attribute is set
\* on each new child.
RECURSIVE AddWarningElements(_, _)
AddWarningElements(el, warnings) ==
    IF warnings = <<>> THEN Ok(el)
    ELSE LET category == CHOOSE k \in DOMAIN Head(warnings) : TRUE
             text == Head(warnings)[category] IN
    IF AddSubElementFails(text) THEN Raise(SubElementError)
    ELSE AddWarningElements(
            Append_(el, SetAttr(SubElementOf("warning", text), "category", category)),
            Tail(warnings))

\* Rule.to_xml_element(self)
Rule_to_xml_element(self) ==
    LET e0 == SetAttr(Element("Rule"), "id", self.id_)
        e1 == IF self.prodtype # "all" THEN SetAttr(e0, "prodtype", self.prodtype) ELSE e0
        e2 == SetAttr(e1, "severity", self.severity)
        r3 == AddSubElements(e2, << <<"title", self.title>>,
                                    <<"description", self.description>>,
                                    <<"rationale", self.rationale>> >>) IN
    IF r3.status # "ok" THEN r3
    ELSE LET r4 == AddIdentsOrRefs(r3.entity, self.identifiers.items, "ident") IN
    IF r4.status # "ok" THEN r4
    ELSE LET r5 == AddIdentsOrRefs(r4.entity, self.references.items, "ref") IN
    IF r5.status # "ok" THEN r5
    ELSE LET e6 == AddCheckOrOval(r5.entity, self)
             r7 == IF Truthy(self.ocil) \/ Truthy(self.ocil_clause)
                   THEN LET data == IF Truthy(self.ocil) THEN self.ocil ELSE "" IN
                        IF AddSubElementFails(data) THEN Raise(SubElementError)
                        ELSE Ok(Append_(e6, IF Truthy(self.ocil_clause)
                                            THEN SetAttr(SubElementOf("ocil", data),
                                                         "clause", self.ocil_clause)
                                            ELSE SubElementOf("ocil", data)))
                   ELSE Ok(e6) IN
    IF r7.status # "ok" THEN r7
    ELSE LET r8 == AddWarningElements(r7.entity, self.warnings) IN
    IF r8.status # "ok" THEN r8
    ELSE IF Truthy(self.platform)
    THEN IF self.platform \notin KnownPlatforms THEN Raise(UnsupportedPlatform)
         ELSE Ok(Append_(r8.entity, SetAttr(Element("platform"), "idref",
                                            PlatformCpe(self.platform))))
    ELSE r8

\* ========================================================= the objects
\* The Python objects of a run live in heap, a sequence: a reference is an
\* index into it, and NoneRef is None.  An object is the record of its
\* attributes; a Benchmark or a Group also has the maps values, groups and
\* rules, from an id to a reference.
NoneRef == 0

\* Benchmark.__init__ seeds self.values with the conditional_clause Value,
\* which is kept in the map without an object of its own.
SeedValues == "conditional_clause" :> NoneRef

\* The object that from_yaml built: its attributes and, for a container, its maps.
ObjectOf(entity) ==
    IF entity.kind = "Benchmark"
    THEN entity @@ [values |-> SeedValues, groups |-> <<>>, rules |-> <<>>, profiles |-> <<>>,
                    bash_remediation_fns_group |-> None]
    ELSE IF entity.kind = "Group"
    THEN entity @@ [values |-> <<>>, groups |-> <<>>, rules |-> <<>>]
    ELSE entity

HeapResult(h) == [status |-> "ok", heap |-> h]

\* self.<map>[child.id_] = child
PutInMapKeepFirst(h, self, map, child) ==
    [h EXCEPT ![self] = [@ EXCEPT ![map] = @ @@ (h[child].id_ :> child)]]

PutInMap(h, self, map, child) ==
    [h EXCEPT ![self] = [@ EXCEPT ![map] = (h[child].id_ :> child) @@ @]]

\* Benchmark.add_value / Group.add_value
add_value(h, self, value) ==
    IF value = NoneRef THEN HeapResult(h)
    ELSE HeapResult(PutInMap(h, self, "values", value))

\* Benchmark.add_group(self, group)
Benchmark_add_group(h, self, group) ==
    IF group = NoneRef THEN HeapResult(h)
    ELSE HeapResult(PutInMap(h, self, "groups", group))

\* Benchmark.add_rule(self, rule)
Benchmark_add_rule(h, self, rule) ==
    IF rule = NoneRef THEN HeapResult(h)
    ELSE HeapResult(PutInMap(h, self, "rules", rule))

NoPlatformAttribute == "AttributeError: 'Benchmark' object has no attribute 'platform'"

\* if self.platform and not child.platform: child.platform = self.platform
\* (a Benchmark child has no platform attribute to read)
InheritPlatformAlways(h, self, child) ==
    HeapResult([h EXCEPT ![child].platform = h[self].platform])

InheritPlatform(h, self, child) ==
    IF ~Truthy(h[self].platform) THEN HeapResult(h)
    ELSE IF h[child].kind = "Benchmark" THEN Raise(NoPlatformAttribute)
    ELSE IF ~Truthy(h[child].platform)
    THEN HeapResult([h EXCEPT ![child].platform = h[self].platform])
    ELSE HeapResult(h)

\* Group.add_group(self, group)
Group_add_group(h, self, group) ==
    IF group = NoneRef THEN HeapResult(h)
    ELSE LET r == InheritPlatform(h, self, group) IN
         IF r.status # "ok" THEN r
         ELSE HeapResult(PutInMap(r.heap, self, "groups", group))

\* Group.add_rule(self, rule)
Group_add_rule_NoPlatform(h, self, rule) ==
    IF rule = NoneRef THEN HeapResult(h)
    ELSE HeapResult(PutInMap(h, self, "rules", rule))

Group_add_rule(h, self, rule) ==
    IF rule = NoneRef THEN HeapResult(h)
    ELSE LET r == InheritPlatform(h, self, rule) IN
         IF r.status # "ok" THEN r
         ELSE HeapResult(PutInMap(r.heap, self, "rules", rule))

\* parent.add_group(group), by the class of parent
add_group(h, self, group) ==
    IF h[self].kind = "Benchmark" THEN Benchmark_add_group(h, self, group)
    ELSE Group_add_group(h, self, group)

\* parent.add_rule(rule), by the class of parent
add_rule(h, self, rule) ==
    IF h[self].kind = "Benchmark" THEN Benchmark_add_rule(h, self, rule)
    ELSE Group_add_rule(h, self, rule)

\* ------------------------------------------------- descriptors (inputs)
Strings == UNION {[1..n -> {"!", "=", "r"}] : n \in 0..MaxStrLen}

SelectionLists == UNION {[1..n -> Strings] : n \in 0..MaxSelections}

Texts == {"text"} \cup MalformedMarkup

\* A descriptor with the keys ks: the values of vals where given, else plain text.
Doc(ks, vals) == [k \in ks |-> IF k \in DOMAIN vals THEN vals[k] ELSE "text"]

YamlFile(kind, name, data) == [kind |-> kind, name |-> name, null |-> FALSE, data |-> data]

\* A file that open_and_expand / open_and_macro_expand loads as None (an empty file).
EmptyFile(kind, name) == [kind |-> kind, name |-> name, null |-> TRUE, data |-> <<>>]

ProfileKeys == {"title", "description", "extends", "selections"}

ProfileFiles ==
    {YamlFile("Profile", "p", Doc(ks, "selections" :> <<<<"r">>>> @@ "extends" :> "base")) :
        ks \in SUBSET (ProfileKeys \cup ExtraKeys)}
    \cup {YamlFile("Profile", "p",
                   Doc(ProfileKeys \ ke, "selections" :> sels @@ "extends" :> None
                                          @@ "title" :> t)) :
            ke \in {{}, {"extends"}}, sels \in SelectionLists, t \in {"text"}}
    \cup {YamlFile("Profile", "p",
                   Doc(ProfileKeys, "selections" :> <<>> @@ "extends" :> "base"
                                    @@ "title" :> t @@ "description" :> d)) :
            t \in Texts, d \in Texts}
    \cup {EmptyFile("Profile", "p")}

WarningOne == "general" :> "text"

WarningLists == {<<>>, <<WarningOne>>, <<("general" :> "text") @@ ("functionality" :> "text")>>, <<WarningOne, WarningOne>>}

ValueKeys == {"title", "description", "type", "operator", "interactive", "options", "warnings"}

ValueFiles ==
    {YamlFile("Value", "v",
              Doc(ks, "operator" :> "less than" @@ "interactive" :> "True"
                      @@ "options" :> ("default" :> "1") @@ "warnings" :> <<WarningOne>>)) :
        ks \in SUBSET (ValueKeys \cup ExtraKeys)}
    \cup {YamlFile("Value", "v",
                   Doc(ValueKeys \cup ke, "operator" :> op @@ "interactive" :> ia
                       @@ "options" :> ("default" :> "1") @@ "warnings" :> ws)) :
            ke \in SUBSET ExtraKeys, op \in {"equals", "pattern match", "bogus"},
            ia \in {"true", "false", NonString}, ws \in WarningLists}
    \cup {EmptyFile("Value", "v")}

BenchmarkKeys ==
    {"title", "status", "description", "notice", "front-matter", "rear-matter", "version"}

NoticeKeys == {"id", "description"}

BenchmarkFile(data, product) ==
    [kind |-> "Benchmark", name |-> "benchmark", null |-> FALSE, data |-> data,
     product |-> product]

BenchmarkFiles ==
    {BenchmarkFile(Doc(ks, "notice" :> Doc(NoticeKeys, <<>>)), None) :
        ks \in SUBSET (BenchmarkKeys \cup ExtraKeys)}
    \cup {BenchmarkFile(Doc(BenchmarkKeys \cup ke, "notice" :> Doc(ns, <<>>)), product) :
            ke \in SUBSET ExtraKeys, ns \in SUBSET (NoticeKeys \cup ExtraKeys),
            product \in {None, "rhel7", "bogus"}}
    \cup {[kind |-> "Benchmark", name |-> "benchmark", null |-> TRUE, data |-> <<>>,
           product |-> None]}

Platforms == {"machine", "container", "bogus", ""}

GroupKeys == {"prodtype", "title", "description", "warnings", "platform"}

GroupFiles ==
    {YamlFile("Group", "g",
              Doc(ks, "prodtype" :> "rhel7" @@ "warnings" :> <<WarningOne>>
                      @@ "platform" :> "machine")) :
        ks \in SUBSET (GroupKeys \cup ExtraKeys)}
    \cup {YamlFile("Group", "g",
                   Doc(GroupKeys \cup ke, "prodtype" :> "all" @@ "warnings" :> ws
                                          @@ "platform" :> pf)) :
            ke \in SUBSET ExtraKeys, ws \in WarningLists, pf \in Platforms}
    \cup {EmptyFile("Group", "g")}

\* Identifier and reference keys: "cce", "s", "s@r", "cce@r", "s@r@x" and a
\* key that is not a string.
ItemKeys ==
    {<<"c", "c", "e">>, <<"s">>, <<"s", "@", "r">>, <<"c", "c", "e", "@", "r">>,
     <<"s", "@", "r", "@", "x">>, NonStringKey}

ItemValues == {"27277-1", "v", " ", NonString}

Items == ItemKeys \X ItemValues

\* The item lists of the dicts with at most MaxItems entries (keys distinct).
ItemLists ==
    UNION {{l \in [1..n -> Items] : \A i, j \in 1..n : i # j => l[i][1] # l[j][1]} :
              n \in 0..MaxItems}

Mappings == {Mapping(l) : l \in ItemLists} \cup {NoneMapping}

RuleRequiredKeys == {"title", "description", "rationale", "severity"}

RuleOptionalKeys ==
    {"prodtype", "references", "identifiers", "ocil_clause", "ocil",
     "oval_external_content", "warnings", "platform"}

RuleDefaults ==
    "prodtype" :> "rhel7" @@ "references" :> Mapping(<< <<<<"s">>, "v">> >>)
    @@ "identifiers" :> Mapping(<< <<<<"c", "c", "e">>, "27277-1">> >>)
    @@ "ocil_clause" :> "text" @@ "ocil" :> "text" @@ "oval_external_content" :> "href"
    @@ "warnings" :> <<WarningOne>> @@ "platform" :> "machine"

RuleFiles ==
    {YamlFile("Rule", "r", Doc(ks, RuleDefaults)) :
        ks \in SUBSET (RuleRequiredKeys \cup ExtraKeys
                       \cup {"identifiers", "oval_external_content", "warnings"})}
    \cup {YamlFile("Rule", "r", Doc(RuleRequiredKeys \cup {k} \cup ke, k :> m)) :
            k \in {"identifiers", "references"}, ke \in SUBSET ExtraKeys, m \in Mappings}
    \cup {YamlFile("Rule", "r",
                   Doc(RuleRequiredKeys \cup RuleOptionalKeys \cup ke,
                       "oval_external_content" :> oval @@ "warnings" :> ws
                       @@ "platform" :> pf @@ "title" :> t @@ "ocil" :> oc
                       @@ RuleDefaults)) :
            ke \in SUBSET ExtraKeys, oval \in {None, "", "href"}, ws \in WarningLists,
            pf \in Platforms, t \in Texts, oc \in {None, "text"}}
    \cup {EmptyFile("Rule", "r")}

\* ------------------------------------------------- SpecEntity: one descriptor
NoResult == [status |-> "unset"]

NoObjects == heap = <<>> /\ err = ""

\* The arguments profiles_dir and bash_remediation_fns: whether profiles_dir
\* is given, the .profile files in it, and whether the bash file is well-formed
\* XML.  They are read when a benchmark is loaded.
NotRead == [read |-> FALSE, profiles_dir |-> FALSE, profiles |-> <<>>, bash_ok |-> TRUE]

NoTree ==
    /\ action = ""
    /\ dirs = <<>>
    /\ stack = <<>>
    /\ trace = <<>>
    /\ written = 0
    /\ inputs = NotRead
    /\ contents = <<>>

NoEntity ==
    /\ yaml_file = EmptyFile("", "")
    /\ parsed = NoResult
    /\ rendered = NoResult
    /\ epc = ""

InitEntity ==
    /\ yaml_file \in RuleFiles \cup ProfileFiles \cup ValueFiles \cup BenchmarkFiles
                     \cup GroupFiles
    /\ parsed = NoResult
    /\ rendered = NoResult
    /\ epc = "start"
    /\ NoObjects
    /\ NoTree

ParseProfile ==
    /\ epc = "start" /\ yaml_file.kind = "Profile"
    /\ parsed' = Profile_from_yaml(yaml_file)
    /\ epc' = "parsed"
    /\ UNCHANGED <<yaml_file, rendered, objectVars, treeVars>>

ParseValue ==
    /\ epc = "start" /\ yaml_file.kind = "Value"
    /\ parsed' = Value_from_yaml(yaml_file)
    /\ epc' = "parsed"
    /\ UNCHANGED <<yaml_file, rendered, objectVars, treeVars>>

ParseBenchmark ==
    /\ epc = "start" /\ yaml_file.kind = "Benchmark"
    /\ parsed' = Benchmark_from_yaml(yaml_file)
    /\ epc' = "parsed"
    /\ UNCHANGED <<yaml_file, rendered, objectVars, treeVars>>

ParseGroup ==
    /\ epc = "start" /\ yaml_file.kind = "Group"
    /\ parsed' = Group_from_yaml(yaml_file)
    /\ epc' = "parsed"
    /\ UNCHANGED <<yaml_file, rendered, objectVars, treeVars>>

ParseRule ==
    /\ epc = "start" /\ yaml_file.kind = "Rule"
    /\ parsed' = Rule_from_yaml(yaml_file)
    /\ epc' = "parsed"
    /\ UNCHANGED <<yaml_file, rendered, objectVars, treeVars>>

RenderProfile ==
    /\ epc = "parsed" /\ parsed.status = "ok" /\ parsed.entity.kind = "Profile"
    /\ rendered' = Profile_to_xml_element(parsed.entity)
    /\ epc' = "rendered"
    /\ UNCHANGED <<yaml_file, parsed, objectVars, treeVars>>

RenderRule ==
    /\ epc = "parsed" /\ parsed.status = "ok" /\ parsed.entity.kind = "Rule"
    /\ rendered' = Rule_to_xml_element(parsed.entity)
    /\ epc' = "rendered"
    /\ UNCHANGED <<yaml_file, parsed, objectVars, treeVars>>

NextEntity ==
    \/ ParseProfile
    \/ ParseValue
    \/ ParseBenchmark
    \/ ParseGroup
    \/ ParseRule
    \/ RenderProfile
    \/ RenderRule

SpecEntity == InitEntity /\ [][NextEntity]_vars

\* ------------------------------- SpecApi: entities built and added by hand
from_yaml(f) ==
    CASE f.kind = "Profile" -> Profile_from_yaml(f)
      [] f.kind = "Value" -> Value_from_yaml(f)
      [] f.kind = "Benchmark" -> Benchmark_from_yaml(f)
      [] f.kind = "Group" -> Group_from_yaml(f)
      [] f.kind = "Rule" -> Rule_from_yaml(f)

GroupFile(name, optional) == YamlFile("Group", name, Doc({"title", "description"} \cup DOMAIN optional, optional))

RuleFile(name, optional) == YamlFile("Rule", name, Doc(RuleRequiredKeys \cup DOMAIN optional, optional))

ValidBenchmarkFile == BenchmarkFile(Doc(BenchmarkKeys, "notice" :> Doc(NoticeKeys, <<>>)), "rhel7")

ValidValueFile(name) ==
    YamlFile("Value", name, Doc({"title", "description", "type", "options"},
                                "options" :> ("default" :> "1")))

\* The descriptors entities are built from. A reference is only a name, so
\* entities are built in the order of this list (any run is, up to the
\* numbering of its entities, a run that builds them in this order).
ApiFiles ==
    <<ValidBenchmarkFile,
      GroupFile("a", <<>>),
      GroupFile("a", "platform" :> "machine" @@ "prodtype" :> "rhel7"),
      GroupFile("b", "platform" :> "container"),
      GroupFile("b", "platform" :> ""),
      RuleFile("a", <<>>),
      RuleFile("a", "platform" :> "container"),
      RuleFile("b", "platform" :> "" @@ "prodtype" :> "rhel7"),
      ValidValueFile("a"),
      YamlFile("Value", "a", Doc({"title", "description", "type", "options", "operator"},
                                 "options" :> ("default" :> "1")
                                 @@ "operator" :> "less than"))>>

ApiParsed == [i \in 1..Len(ApiFiles) |-> from_yaml(ApiFiles[i])]

Refs == 1..Len(heap)

RefsOfKind(kinds) == {r \in Refs : heap[r].kind \in kinds}

InitApi == NoEntity /\ NoObjects /\ NoTree

\* entity = <Class>.from_yaml(file), for a descriptor after the one built last
ApiFromYaml ==
    /\ Len(heap) < MaxObjects
    /\ \E i \in ((IF heap = <<>> THEN 0 ELSE heap[Len(heap)].file) + 1)..Len(ApiFiles) :
          /\ ApiParsed[i].status = "ok"
          /\ heap' = Append(heap, ObjectOf(ApiParsed[i].entity) @@ [file |-> i])
    /\ err' = ""
    /\ UNCHANGED <<entityVars, treeVars>>

\* What a call with result r leaves: the new heap, or the exception.
ApiCall(r) ==
    /\ heap' = IF r.status = "ok" THEN r.heap ELSE heap
    /\ err' = IF r.status = "ok" THEN "" ELSE r.error
    /\ UNCHANGED <<entityVars, treeVars>>

\* parent.add_group(group), group an entity or None
ApiAddGroup ==
    \E self \in RefsOfKind({"Benchmark", "Group"}) :
       \E group \in (RefsOfKind({"Benchmark", "Group"}) \ {self}) \cup {NoneRef} :
          ApiCall(add_group(heap, self, group))

\* parent.add_rule(rule), rule an entity or None
ApiAddRule ==
    \E self \in RefsOfKind({"Benchmark", "Group"}) :
       \E rule \in RefsOfKind({"Rule"}) \cup {NoneRef} :
          ApiCall(add_rule(heap, self, rule))

\* parent.add_value(value), value an entity or None
ApiAddValue ==
    \E self \in RefsOfKind({"Benchmark", "Group"}) :
       \E value \in RefsOfKind({"Value"}) \cup {NoneRef} :
          ApiCall(add_value(heap, self, value))

NextApi ==
    \/ ApiFromYaml
    \/ ApiAddGroup
    \/ ApiAddRule
    \/ ApiAddValue

SpecApi == InitApi /\ [][NextApi]_vars

\* ------------------------------------ Spec: add_from_directory over a tree
\* A path is <<directory, name, index>>: <<d, "benchmark.yml", 0>>,
\* <<d, "group.yml", 0>>, the k-th .var file <<d, ".var", k>>, the k-th rule
\* descriptor <<d, ".rule", k>> or, in a rule directory, <<d, "rule.yml", k>>,
\* the directory itself <<d, "", 0>>, the entry tests <<d, "tests", 0>>, the
\* k-th file of another extension <<d, ".txt", k>>; the files outside the tree
\* are the k-th entry of profiles_dir, <<0, ".profile", k>> or <<0, ".txt", k>>,
\* and <<0, "bash_remediation_fns", 0>>.
DirPath(d) == <<d, "", 0>>

ValuePath(d, k) == <<d, ".var", k>>

\* The k-th path of the list rules: the rule directories, which give
\* get_rule_dir_yaml(dir_item_path), are the last nruledirs of the listing.
RulePath(d, k) ==
    IF k > dirs[d].nrules - dirs[d].nruledirs THEN <<d, "rule.yml", k>> ELSE <<d, ".rule", k>>

\* The base names of files and directories, by their place in a listing.
Names == <<"a", "b", "c", "d", "e", "f", "g", "h">>

\* A directory os.listdir has not read yet, under the directory parent.
UnlistedDir(parent) ==
    [parent |-> parent, listed |-> FALSE, benchmark_file |-> FALSE, group_file |-> FALSE,
     nvalues |-> 0, nrules |-> 0, nruledirs |-> 0, subdirs |-> <<>>, tests |-> FALSE,
     nothers |-> 0]

\* The directory entries listed so far: descriptors, subdirectories, entries
\* named tests and files of another extension.
RECURSIVE EntriesIn(_, _)
EntriesIn(ds, n) ==
    IF n = 0 THEN 0
    ELSE (IF ds[n].benchmark_file THEN 1 ELSE 0) + (IF ds[n].group_file THEN 1 ELSE 0)
         + ds[n].nvalues + ds[n].nrules + Len(ds[n].subdirs)
         + (IF ds[n].tests THEN 1 ELSE 0) + ds[n].nothers + EntriesIn(ds, n - 1)

\* The descriptor contents a file of the tree may hold.
TreeBenchmarkFiles ==
    {ValidBenchmarkFile,
     BenchmarkFile(Doc(BenchmarkKeys \cup ExtraKeys, "notice" :> Doc(NoticeKeys, <<>>)), "rhel7"),
     [kind |-> "Benchmark", name |-> "benchmark", null |-> TRUE, data |-> <<>>,
      product |-> None]}

\* (only the top directory is drawn with a platform XCCDF_PLATFORM_TO_CPE lacks)
TreeGroupFiles(name) ==
    {GroupFile(name, <<>>),
     GroupFile(name, "platform" :> "machine"),
     GroupFile(name, "unknown_key" :> "text"),
     EmptyFile("Group", name)}
    \cup (IF name = Names[1] THEN {GroupFile(name, "platform" :> "bogus")} ELSE {})

TreeValueFiles(name) ==
    {ValidValueFile(name),
     YamlFile("Value", name, Doc({"title", "description", "type", "options", "operator"},
                                 "options" :> ("default" :> "1") @@ "operator" :> "bogus"))}

\* (only the first rule of a directory is drawn with a platform of its own)
TreeRuleFiles(name) ==
    {RuleFile(name, <<>>),
     RuleFile(name, "unknown_key" :> "text")}
    \cup (IF name = Names[1] THEN {RuleFile(name, "platform" :> "container")} ELSE {})

TreeProfileFiles(name) ==
    {YamlFile("Profile", name, Doc(ProfileKeys \ {"extends"}, "selections" :> <<<<"r">>>>)),
     YamlFile("Profile", name, Doc((ProfileKeys \ {"extends"}) \cup ExtraKeys,
                                   "selections" :> <<<<"r">>>>))}

\* What from_yaml makes of each of these files.
TreeParsed ==
    [f \in TreeBenchmarkFiles
            \cup UNION {TreeGroupFiles(Names[k]) \cup TreeValueFiles(Names[k])
                        \cup TreeRuleFiles(Names[k]) \cup TreeProfileFiles(Names[k]) :
                        k \in DOMAIN Names}
        |-> from_yaml(f)]

\* The contents of profiles_dir and of the bash file a benchmark may find: a
\* profiles_dir holds an entry that is not a .profile file (its kind is
\* "Other") and a .profile file.
InputsOf(act) ==
    {[read |-> TRUE, profiles_dir |-> FALSE, profiles |-> <<>>, bash_ok |-> ok] :
        ok \in (IF act = "build" THEN BOOLEAN ELSE {TRUE})}
    \cup {[read |-> TRUE, profiles_dir |-> TRUE, bash_ok |-> TRUE,
           profiles |-> <<EmptyFile("Other", Names[1]), f>>] :
            f \in TreeProfileFiles(Names[2])}

\* One activation of add_from_directory: its directory, where it is, the
\* index in the loop it is in, and its local variable group.
Frame(d) == [dir |-> d, pc |-> "listdir", i |-> 1, group |-> NoneRef]

Top == stack[Len(stack)]

SetTop(f) == [stack EXCEPT ![Len(stack)] = f]

\* parent_group of the running activation
ParentGroup == IF Len(stack) > 1 THEN stack[Len(stack) - 1].group ELSE NoneRef

Running(pc) == err = "" /\ stack # <<>> /\ Top.pc = pc

Event(op, path) == [op |-> op, path |-> path]

\* The three loops of add_from_directory, in the order of the code.
LoopOrderRulesFirst == <<"values", "rules", "subdirs">>

LoopOrder == <<"values", "subdirs", "rules">>

LoopCount(d, pc) ==
    CASE pc = "values" -> d.nvalues
      [] pc = "subdirs" -> Len(d.subdirs)
      [] pc = "rules" -> d.nrules

After(pc) ==
    LET k == CHOOSE j \in 1..Len(LoopOrder) : LoopOrder[j] = pc IN
    IF k < Len(LoopOrder) THEN LoopOrder[k + 1] ELSE "finish"

\* Where the activation f goes on: the next iteration of its loop, or the
\* first iteration of the next loop that has one, or the end.
RECURSIVE Settle(_, _)
Settle(ds, f) ==
    IF f.pc = "finish" THEN f
    ELSE IF f.i <= LoopCount(ds[f.dir], f.pc) THEN f
    ELSE Settle(ds, [f EXCEPT !.pc = After(f.pc), !.i = 1])

\* The stack once the running activation has returned.
Returned ==
    IF Len(stack) = 1 THEN <<>>
    ELSE LET rest == SubSeq(stack, 1, Len(stack) - 1) IN
         [rest EXCEPT ![Len(rest)] = Settle(dirs, @)]

\* if not parent_group
TopLevelAlways(st) == TRUE

TopLevel(st) == Len(st) = 1

\* ---- load_benchmark_or_group, over s = [heap, trace, err, group, inputs]
Parsed(s, path) == [s EXCEPT !.trace = Append(@, Event("parse", path))]

Failed(s, e) == [s EXCEPT !.err = e]

\* group = <Class>.from_yaml(...) returned the entity e
Built(s, e) ==
    [s EXCEPT !.heap = Append(@, ObjectOf(e)), !.group = Len(s.heap) + 1]

MultipleDescriptorsError == "ValueError: A .benchmark file and a .group file were found"

NoneHasNoAttribute == "AttributeError: 'NoneType' object has no attribute"

BashParseError == "ParseError: bash remediation functions"

\* if action == "list-inputs": print(path)
PrintedWhenListing(s, act, path) ==
    IF act = "list-inputs" THEN [s EXCEPT !.trace = Append(@, Event("print", path))] ELSE s

\* self.profiles.append(Profile.from_yaml(dir_item_path, env_yaml)), r what
\* from_yaml gave, and the print that follows it
ProfileAppended(s, act, r, k) ==
    IF r.status = "error" THEN Failed(s, r.error)
    ELSE PrintedWhenListing([s EXCEPT !.heap[s.group].profiles = Append(@, r)], act,
                            <<0, ".profile", k>>)

\* Benchmark.add_profiles_from_dir(self, action, dir_, env_yaml), from the
\* k-th file of the directory on; an exception ends it
RECURSIVE add_profiles_from_dir(_, _, _, _)
add_profiles_from_dir(s, act, files, k) ==
    IF k > Len(files) \/ s.err # "" THEN s
    ELSE IF files[k].kind # "Profile"
    THEN add_profiles_from_dir([s EXCEPT !.trace = Append(@, Event("skip", <<0, ".txt", k>>))],
                               act, files, k + 1)
    ELSE add_profiles_from_dir(
            ProfileAppended(Parsed(s, <<0, ".profile", k>>), act, TreeParsed[files[k]], k),
            act, files, k + 1)

\* Benchmark.add_bash_remediation_fns_from_file(self, action, file_), which
\* is not reached when an exception is on its way
add_bash_remediation_fns_from_file(s, act, bash_ok) ==
    IF s.err # "" THEN s
    ELSE IF act = "list-inputs" THEN PrintedWhenListing(s, act, <<0, "bash_remediation_fns", 0>>)
    ELSE IF ~bash_ok THEN Failed(Parsed(s, <<0, "bash_remediation_fns", 0>>), BashParseError)
    ELSE [Parsed(s, <<0, "bash_remediation_fns", 0>>)
             EXCEPT !.heap[s.group].bash_remediation_fns_group = "root"]

\* group = Benchmark.from_yaml(...), r what from_yaml gave: None has no
\* method add_profiles_from_dir or add_bash_remediation_fns_from_file
BenchmarkBuilt(s, r, inp) ==
    IF r.status = "error" THEN Failed(s, r.error)
    ELSE IF r.status = "none" THEN Failed(s, NoneHasNoAttribute)
    ELSE [Built(s, r.entity) EXCEPT !.inputs = inp]

\* The end of the benchmark branch, reached when nothing was raised.
BenchmarkPrinted(s, act, d) ==
    IF s.err # "" THEN s ELSE PrintedWhenListing(s, act, <<d, "benchmark.yml", 0>>)

\* if benchmark_file: ...
LoadBenchmark(s, act, d, file, inp) ==
    BenchmarkPrinted(
        add_bash_remediation_fns_from_file(
            add_profiles_from_dir(
                BenchmarkBuilt(Parsed(s, <<d, "benchmark.yml", 0>>), TreeParsed[file], inp),
                act, IF inp.profiles_dir THEN inp.profiles ELSE <<>>, 1),
            act, inp.bash_ok),
        act, d)

\* group = Group.from_yaml(group_file, env_yaml), r what from_yaml gave
GroupBuilt(s, r) ==
    IF r.status = "error" THEN Failed(s, r.error)
    ELSE IF r.status = "none" THEN [s EXCEPT !.group = NoneRef]
    ELSE Built(s, r.entity)

\* if group_file: ..., which is not reached when an exception is on its way
LoadGroupNoPrint(s, act, d, file) ==
    IF s.err # "" THEN s
    ELSE GroupBuilt(Parsed(s, <<d, "group.yml", 0>>), TreeParsed[file])

LoadGroup(s, act, d, file) ==
    IF s.err # "" THEN s
    ELSE PrintedWhenListing(GroupBuilt(Parsed(s, <<d, "group.yml", 0>>), TreeParsed[file]),
                            act, <<d, "group.yml", 0>>)

\* if group_file and benchmark_file
MultipleDescriptorsNever(listing) == FALSE

MultipleDescriptors(listing) == listing.group_file /\ listing.benchmark_file

\* load_benchmark_or_group(group_file, benchmark_file, guide_directory, action,
\*                         profiles_dir, env_yaml, bash_remediation_fns)
load_benchmark_or_group(s, act, d, listing, bfile, gfile, inp) ==
    IF MultipleDescriptors(listing) THEN Failed(s, MultipleDescriptorsError)
    ELSE IF listing.group_file
    THEN LoadGroup(IF listing.benchmark_file THEN LoadBenchmark(s, act, d, bfile, inp) ELSE s,
                   act, d, gfile)
    ELSE IF listing.benchmark_file THEN LoadBenchmark(s, act, d, bfile, inp)
    ELSE s

\* ---- to_file: the errors that rendering the tree under ref can raise
TextErrors(texts) ==
    IF \E t \in texts : AddSubElementFails(t) THEN {SubElementError} ELSE {}

ResultErrors(r) == IF r.status = "error" THEN {r.error} ELSE {}

\* add_sub_element(element, 'description', ...); add_warning_elements(element, ...)
DescriptionErrors(self) ==
    TextErrors({self.description})
    \cup ResultErrors(AddWarningElements(Element(self.kind), self.warnings))

\* What to_xml_element of the object itself can raise, its children aside.
OwnRenderErrors(self) ==
    CASE self.kind = "Rule" -> ResultErrors(Rule_to_xml_element(self))
      [] self.kind = "Value" -> DescriptionErrors(self)
      [] self.kind = "Group" -> DescriptionErrors(self)
            \cup (IF Truthy(self.platform) /\ self.platform \notin KnownPlatforms
                  THEN {UnsupportedPlatform} ELSE {})
      [] self.kind = "Benchmark" ->
            TextErrors({self.title, self.description, self.notice_description,
                        self.front_matter, self.rear_matter})
            \cup UNION {ResultErrors(Profile_to_xml_element(self.profiles[k].entity)) :
                          k \in {j \in 1..Len(self.profiles) : self.profiles[j].status = "ok"}}

ChildrenOf(self) ==
    IF self.kind \in {"Benchmark", "Group"}
    THEN ({self.values[k] : k \in DOMAIN self.values}
          \cup {self.groups[k] : k \in DOMAIN self.groups}
          \cup {self.rules[k] : k \in DOMAIN self.rules}) \ {NoneRef}
    ELSE {}

\* Benchmark.to_xml_element / Group.to_xml_element render the object and then
\* its values, groups and rules in the order of the maps; the exception is
\* that of the first element that fails, one of the errors of this set.
RECURSIVE RenderErrors(_, _)
RenderErrors(h, ref) ==
    OwnRenderErrors(h[ref]) \cup UNION {RenderErrors(h, c) : c \in ChildrenOf(h[ref])}

\* ---- the steps of add_from_directory
Init ==
    /\ action \in {"build", "list-inputs"}
    /\ dirs = <<UnlistedDir(0)>>
    /\ stack = <<Frame(1)>>
    /\ trace = <<>>
    /\ written = 0
    /\ inputs = NotRead
    /\ contents = <<>>
    /\ NoObjects
    /\ NoEntity

\* An exception leaves every activation: nothing catches it.
Fail(e) ==
    /\ err' = e
    /\ stack' = <<>>

\* for dir_item in os.listdir(guide_directory): ...
\* The listings drawn: any number of .var files, rules and subdirectories;
\* of two or more rules the last is a rule directory; an entry named tests
\* comes together with a file of another extension.  The trace has the
\* notice written for such a file and then the end of the loop.
ListDir ==
    /\ Running("listdir")
    /\ \E bf, gf, tests \in BOOLEAN :
       \E nv, nr, ns \in 0..(MaxEntries - EntriesIn(dirs, Len(dirs))), nrd, no \in 0..1 :
          /\ nrd = (IF nr >= 2 THEN 1 ELSE 0)
          /\ tests = (no = 1)
          /\ (IF bf THEN 1 ELSE 0) + (IF gf THEN 1 ELSE 0) + nv + nr + ns
                + (IF tests THEN 1 ELSE 0) + no
                <= MaxEntries - EntriesIn(dirs, Len(dirs))
          /\ dirs' = [k \in 1..(Len(dirs) + ns) |->
                         IF k = Top.dir
                         THEN [parent |-> dirs[k].parent, listed |-> TRUE,
                               benchmark_file |-> bf, group_file |-> gf,
                               nvalues |-> nv, nrules |-> nr, nruledirs |-> nrd,
                               subdirs |-> [j \in 1..ns |-> Len(dirs) + j],
                               tests |-> tests, nothers |-> no]
                         ELSE IF k <= Len(dirs) THEN dirs[k]
                         ELSE UnlistedDir(Top.dir)]
          /\ trace' = Append(trace \o [k \in 1..no |-> Event("skip", <<Top.dir, ".txt", k>>)],
                              Event("listdir", DirPath(Top.dir)))
    /\ stack' = SetTop([Top EXCEPT !.pc = "load"])
    /\ UNCHANGED <<action, written, inputs, contents, objectVars, entityVars>>

\* group = load_benchmark_or_group(...); if group is not None: ...
LoadBenchmarkOrGroup ==
    /\ Running("load")
    /\ LET d == Top.dir
           listing == dirs[d]
           s == [heap |-> heap, trace |-> trace, err |-> "", group |-> NoneRef,
                 inputs |-> inputs] IN
       \E bfile \in (IF listing.benchmark_file /\ ~MultipleDescriptors(listing)
                     THEN TreeBenchmarkFiles ELSE {ValidBenchmarkFile}),
          gfile \in (IF listing.group_file /\ ~MultipleDescriptors(listing)
                     THEN TreeGroupFiles(Names[d]) ELSE {EmptyFile("Group", Names[d])}),
          inp \in (IF listing.benchmark_file /\ ~MultipleDescriptors(listing) /\ ~inputs.read
                   THEN InputsOf(action) ELSE {inputs}) :
          \E r \in {load_benchmark_or_group(s, action, d, listing, bfile, gfile, inp)} :
          /\ heap' = r.heap
          /\ inputs' = r.inputs
          /\ contents' = (IF listing.benchmark_file /\ ~listing.group_file
                          THEN <<d, "benchmark.yml", 0>> :> bfile ELSE <<>>)
                         @@ (IF listing.group_file /\ ~listing.benchmark_file
                             THEN <<d, "group.yml", 0>> :> gfile ELSE <<>>)
                         @@ contents
          /\ IF r.err # "" THEN Fail(r.err) /\ trace' = r.trace
             ELSE IF r.group = NoneRef
             THEN /\ err' = ""
                  /\ stack' = Returned
                  /\ trace' = Append(r.trace, Event("return", DirPath(d)))
             ELSE /\ err' = ""
                  /\ stack' = SetTop([Top EXCEPT !.pc = "link", !.group = r.group])
                  /\ trace' = Append(r.trace, Event("loaded", DirPath(d)))
    /\ UNCHANGED <<action, dirs, written, entityVars>>

\* if parent_group: parent_group.add_group(group)
LinkToParent ==
    /\ Running("link")
    /\ IF ParentGroup = NoneRef
       THEN /\ stack' = SetTop(Settle(dirs, [Top EXCEPT !.pc = LoopOrder[1], !.i = 1]))
            /\ UNCHANGED <<heap, err, trace>>
       ELSE \E r \in {add_group(heap, ParentGroup, Top.group)} :
            /\ trace' = Append(trace, Event("link", DirPath(Top.dir)))
            /\ IF r.status = "ok"
               THEN /\ heap' = r.heap
                    /\ err' = ""
                    /\ stack' = SetTop(Settle(dirs, [Top EXCEPT !.pc = LoopOrder[1], !.i = 1]))
               ELSE /\ heap' = heap
                    /\ Fail(r.error)
    /\ UNCHANGED <<action, dirs, written, inputs, contents, entityVars>>

\* value = Value.from_yaml(...); group.add_value(value), and the same for a
\* rule: r is what from_yaml gave.
Added(h, self, r, op) ==
    IF r.status = "none"
    THEN IF op = "add_value" THEN add_value(h, self, NoneRef) ELSE add_rule(h, self, NoneRef)
    ELSE IF op = "add_value"
    THEN add_value(Append(h, ObjectOf(r.entity)), self, Len(h) + 1)
    ELSE add_rule(Append(h, ObjectOf(r.entity)), self, Len(h) + 1)

\* One descriptor of the values or of the rules loop: printed, or parsed by
\* from_yaml and handed to add_value or add_rule.
AttachStep(path, files, op) ==
    IF action = "list-inputs"
    THEN /\ trace' = Append(trace, Event("print", path))
         /\ stack' = SetTop(Settle(dirs, [Top EXCEPT !.i = @ + 1]))
         /\ UNCHANGED <<heap, err, contents>>
    ELSE \E f \in files :
         /\ contents' = (path :> f) @@ contents
         /\ IF TreeParsed[f].status = "error"
            THEN /\ trace' = Append(trace, Event("parse", path))
                 /\ heap' = heap
                 /\ Fail(TreeParsed[f].error)
            ELSE \E a \in {Added(heap, Top.group, TreeParsed[f], op)} :
                 /\ trace' = trace \o <<Event("parse", path), Event(op, path)>>
                 /\ IF a.status = "ok"
                    THEN /\ heap' = a.heap
                         /\ err' = ""
                         /\ stack' = SetTop(Settle(dirs, [Top EXCEPT !.i = @ + 1]))
                    ELSE /\ heap' = heap
                         /\ Fail(a.error)

\* for value_yaml in values: ...
AttachValue ==
    /\ Running("values")
    /\ AttachStep(ValuePath(Top.dir, Top.i), TreeValueFiles(Names[Top.i]), "add_value")
    /\ UNCHANGED <<action, dirs, written, inputs, entityVars>>

\* for subdir in subdirectories: add_from_directory(action, group, subdir, ...)
EnterSubdir ==
    /\ Running("subdirs")
    /\ stack' = Append(SetTop([Top EXCEPT !.i = @ + 1]), Frame(dirs[Top.dir].subdirs[Top.i]))
    /\ trace' = Append(trace, Event("call", DirPath(dirs[Top.dir].subdirs[Top.i])))
    /\ UNCHANGED <<action, dirs, written, inputs, contents, objectVars, entityVars>>

\* for rule_yaml in rules: ...
AttachRule ==
    /\ Running("rules")
    /\ AttachStep(RulePath(Top.dir, Top.i), TreeRuleFiles(Names[Top.i]), "add_rule")
    /\ UNCHANGED <<action, dirs, written, inputs, entityVars>>

\* if not parent_group: if action == "build": group.to_file(output_file)
\* and the return of the activation
Finish ==
    /\ Running("finish")
    /\ IF TopLevel(stack) /\ action = "build"
       THEN \E errors \in {RenderErrors(heap, Top.group)} :
            IF errors = {}
            THEN /\ written' = written + 1
                 /\ trace' = trace \o <<Event("write", DirPath(Top.dir)),
                                        Event("return", DirPath(Top.dir))>>
                 /\ stack' = Returned
                 /\ err' = ""
            ELSE /\ \E e \in errors : Fail(e)
                 /\ UNCHANGED <<written, trace>>
       ELSE /\ stack' = Returned
            /\ trace' = Append(trace, Event("return", DirPath(Top.dir)))
            /\ UNCHANGED <<written, err>>
    /\ UNCHANGED <<action, dirs, heap, inputs, contents, entityVars>>

Next ==
    \/ ListDir
    \/ LoadBenchmarkOrGroup
    \/ LinkToParent
    \/ AttachValue
    \/ EnterSubdir
    \/ AttachRule
    \/ Finish

Spec == Init /\ [][Next]_vars

\* ------------------------------------------------------------------ C6
\* The directive the claim gives for one selection string s.
IsDirectiveFor(el, s) ==
    IF StartsWith(s, "!")
    THEN /\ el.tag = "select"
         /\ DOMAIN el.attrib = {"idref", "selected"}
         /\ el.attrib["selected"] = "false"
         /\ <<"!">> \o el.attrib["idref"] = s
    ELSE IF Contains(s, "=")
    THEN /\ el.tag = "refine-value"
         /\ DOMAIN el.attrib = {"idref", "selector"}
         /\ ~Contains(el.attrib["idref"], "=")
         /\ el.attrib["idref"] \o <<"=">> \o el.attrib["selector"] = s
    ELSE /\ el.tag = "select"
         /\ DOMAIN el.attrib = {"idref", "selected"}
         /\ el.attrib["selected"] = "true"
         /\ el.attrib["idref"] = s

ProfileRendered ==
    /\ epc = "rendered" /\ yaml_file.kind = "Profile" /\ rendered.status = "ok"

\* The children of a rendered Profile after its title and description.
Directives == SubSeq(rendered.entity.children, 3, Len(rendered.entity.children))

\* C6: Profile.to_xml_element emits exactly one directive per selection string,
\* in the order of the selections list and without deduplication: "!x" gives
\* select selected=false idref=x (even if x holds "="), otherwise "v=s" gives
\* refine-value idref=v (the text before the first "=") selector=s (all the
\* text after it), otherwise select selected=true idref=the string.
C6_SelectionDirectives ==
    ProfileRendered =>
        LET sels == parsed.entity.selections IN
        /\ Len(Directives) = Len(sels)
        /\ \A i \in 1..Len(sels) : IsDirectiveFor(Directives[i], sels[i])

\* Two equal selections, each "!=": both are rendered, as unselect of "=".
C6_Witness ==
    /\ ProfileRendered
    /\ parsed.entity.selections = << <<"!", "=">>, <<"!", "=">> >>
    /\ Len(Directives) = 2
    /\ Directives[1].attrib["idref"] = <<"=">>

\* ------------------------------------------------------------------ C1
RecognisedKeys(kind) ==
    CASE kind = "Profile" -> ProfileKeys
      [] kind = "Value" -> ValueKeys
      [] kind = "Benchmark" -> BenchmarkKeys
      [] kind = "Group" -> GroupKeys
      [] kind = "Rule" -> RuleRequiredKeys \cup RuleOptionalKeys

RequiredKeys(kind) ==
    CASE kind = "Profile" -> {"title", "description", "selections"}
      [] kind = "Value" -> {"title", "description", "type", "options"}
      [] kind = "Benchmark" -> BenchmarkKeys
      [] kind = "Group" -> {"title", "description"}
      [] kind = "Rule" -> RuleRequiredKeys

\* The descriptor holds every required key (for a Benchmark, those of "notice" too).
RequiredPresent(f) ==
    /\ ~f.null
    /\ RequiredKeys(f.kind) \subseteq DOMAIN f.data
    /\ f.kind = "Benchmark" => NoticeKeys \subseteq DOMAIN f.data["notice"]

\* The descriptor holds a key the parser does not recognise.
HasExtraKey(f) ==
    /\ ~f.null
    /\ \/ DOMAIN f.data \ RecognisedKeys(f.kind) # {}
       \/ /\ f.kind = "Benchmark"
          /\ "notice" \in DOMAIN f.data
          /\ DOMAIN f.data["notice"] \ NoticeKeys # {}

\* The optional fields that from_yaml checks before it looks for leftover keys.
EarlyOptionalsValid(f) ==
    /\ f.kind = "Value" => /\ Pop(f.data, "operator", "equals") \in PossibleOperators
                           /\ IsStr(Pop(f.data, "interactive", "false"))
    /\ f.kind \in {"Value", "Group", "Rule"} => WarningsValid(Pop(f.data, "warnings", <<>>))

\* The checks that from_yaml makes after it looked for leftover keys.
LateOptionalsValid(f) ==
    /\ f.kind = "Rule" =>
          /\ validate_identifiers(Pop(f.data, "identifiers", Mapping(<<>>))) = ""
          /\ validate_references(Pop(f.data, "references", Mapping(<<>>))) = ""
    /\ f.kind = "Benchmark" => f.product \in KnownProducts \cup {None}

IsUnparsedError(r) == r.status = "error" /\ r.error = Unparsed

\* C1 as stated: with the required fields present, an unrecognised key gives
\* the 'Unparsed YAML data' error, and no unrecognised key gives an entity.
C1_Original ==
    (epc = "parsed" /\ RequiredPresent(yaml_file)) =>
        IF HasExtraKey(yaml_file) THEN IsUnparsedError(parsed) ELSE parsed.status = "ok"

\* C1 (amended): for each of Profile, Value, Benchmark, Group and Rule, when
\* the required fields are present and the optional fields checked before the
\* leftover test (Value operator and interactive, warnings) are valid, a
\* descriptor with an unrecognised key (also one inside the Benchmark's notice)
\* fails with 'Unparsed YAML data' and yields no entity; without such a key,
\* and with the remaining checks passing (Rule identifiers and references,
\* Benchmark product), from_yaml returns an entity.
C1_UnparsedKeys ==
    (epc = "parsed" /\ RequiredPresent(yaml_file) /\ EarlyOptionalsValid(yaml_file)) =>
        /\ HasExtraKey(yaml_file) => IsUnparsedError(parsed)
        /\ (~HasExtraKey(yaml_file) /\ LateOptionalsValid(yaml_file)) => parsed.status = "ok"

\* A Benchmark whose only unrecognised key sits inside "notice" was refused.
C1_Witness ==
    /\ epc = "parsed" /\ yaml_file.kind = "Benchmark"
    /\ RequiredPresent(yaml_file)
    /\ DOMAIN yaml_file.data = BenchmarkKeys
    /\ DOMAIN yaml_file.data["notice"] = NoticeKeys \cup ExtraKeys
    /\ IsUnparsedError(parsed)

\* ------------------------------------------------------------------ C7
RuleRendered ==
    /\ epc = "rendered" /\ yaml_file.kind = "Rule" /\ rendered.status = "ok"

ChildrenWithTag(el, tag) == SelectSeq(el.children, LAMBDA c : c.tag = tag)

\* els are the ident (ref) children for the identifiers (references) items.
QualifiedSplit(items, els) ==
    LET Q == {i \in 1..Len(items) : Contains(items[i][1], "@")}
        U == (1..Len(items)) \ Q
    IN
    /\ Len(els) = Cardinality(Q) + (IF U # {} THEN 1 ELSE 0)
    /\ \A i \in Q : \E j \in 1..Len(els) :
          LET a == els[j].attrib IN
          /\ ProdtypeAttr \in DOMAIN a
          /\ Cardinality(DOMAIN a) = 2
          /\ \E policy \in DOMAIN a \ {ProdtypeAttr} :
                /\ policy \o <<"@">> \o a[ProdtypeAttr] = items[i][1]
                /\ a[policy] = items[i][2]
    /\ U # {} =>
          \E j \in 1..Len(els) :
             /\ DOMAIN els[j].attrib = {items[i][1] : i \in U}
             /\ \A i \in U : els[j].attrib[items[i][1]] = items[i][2]

C8_OvalPointer ==
    RuleRendered =>
        LET ext == Pop(yaml_file.data, "oval_external_content", None)
            ovals == ChildrenWithTag(rendered.entity, "oval")
            checks == ChildrenWithTag(rendered.entity, "check")
        IN IF Truthy(ext)
           THEN /\ Len(ovals) = 0
                /\ Len(checks) = 1
                /\ \E k \in 1..Len(checks[1].children) :
                      /\ checks[1].children[k].tag = "check-content-ref"
                      /\ checks[1].children[k].attrib["href"] = ext
           ELSE /\ Len(checks) = 0
                /\ Len(ovals) = 1
                /\ ovals[1].attrib["id"] = yaml_file.name
                /\ rendered.entity.attrib["id"] = yaml_file.name

\* A rendered Rule whose descriptor has no oval_external_content key.
C8_Witness ==
    /\ RuleRendered
    /\ "oval_external_content" \notin DOMAIN yaml_file.data
    /\ Len(ChildrenWithTag(rendered.entity, "oval")) = 1

\* ------------------------------------------------------------------ C9
RuleParsed == epc = "parsed" /\ yaml_file.kind = "Rule" /\ ~yaml_file.null

ItemsAreNonBlankStrings(items) ==
    \A i \in 1..Len(items) :
        /\ items[i][1] # NonStringKey
        /\ IsStr(items[i][2])
        /\ items[i][2] \notin {"", " "}

\* C9 as stated: a rule descriptor with no 'identifiers' key or an empty
\* identifiers mapping is refused, so a parsed Rule has at least one identifier.
C9_Original ==
    RuleParsed =>
        /\ ("identifiers" \notin DOMAIN yaml_file.data
               \/ yaml_file.data["identifiers"].items = <<>>) => parsed.status = "error"
        /\ parsed.status = "ok" =>
              /\ parsed.entity.identifiers.items # <<>>
              /\ ItemsAreNonBlankStrings(parsed.entity.identifiers.items)

\* C9 (amended): Rule.from_yaml refuses a descriptor whose 'identifiers' is
\* present but None, and accepts an otherwise valid one with no 'identifiers'
\* key or an empty mapping; every Rule it returns has an identifiers mapping,
\* possibly empty, in which every key and value is a string and no value is
\* blank after trimming.
C9_IdentifiersValidated ==
    RuleParsed =>
        /\ ("identifiers" \in DOMAIN yaml_file.data /\ yaml_file.data["identifiers"].null)
              => parsed.status = "error"
        /\ ( /\ RequiredPresent(yaml_file) /\ ~HasExtraKey(yaml_file)
             /\ EarlyOptionalsValid(yaml_file)
             /\ validate_references(Pop(yaml_file.data, "references", Mapping(<<>>))) = ""
             /\ \/ "identifiers" \notin DOMAIN yaml_file.data
                \/ yaml_file.data["identifiers"] = Mapping(<<>>) )
              => parsed.status = "ok"
        /\ parsed.status = "ok" =>
              /\ ~parsed.entity.identifiers.null
              /\ ItemsAreNonBlankStrings(parsed.entity.identifiers.items)

\* A Rule without an 'identifiers' key was accepted, with no identifier at all.
C9_Witness ==
    /\ RuleParsed
    /\ "identifiers" \notin DOMAIN yaml_file.data
    /\ parsed.status = "ok"
    /\ parsed.entity.identifiers.items = <<>>

\* ------------------------------------------------------------------ C3
HasPlatform(h, ref) == Truthy(h[ref].platform)

\* The step is the call self.add_group(child) or self.add_rule(child) on a Group.
IsGroupAdd(self, child) ==
    /\ heap[self].kind = "Group"
    /\ Len(heap') = Len(heap)
    /\ \/ /\ heap[child].kind \in {"Group", "Benchmark"}
          /\ child # self
          /\ heap'[self].rules = heap[self].rules
          /\ ApiCall(add_group(heap, self, child))
       \/ /\ heap[child].kind = "Rule"
          /\ heap'[self].groups = heap[self].groups
          /\ ApiCall(add_rule(heap, self, child))

\* What Group.add_group / Group.add_rule does to the platform of the child.
PlatformAfterAdd(self, child) ==
    IF HasPlatform(heap, self) /\ ~HasPlatform(heap, child)
    THEN heap'[child].platform = heap[self].platform
    ELSE heap'[child].platform = heap[child].platform

\* Every add step leaves the child with the platform PlatformAfterAdd states
\* (written as "the platform is right, or the step is not that add").
C3_AddStep ==
    \A self, child \in Refs :
        \/ heap[self].kind # "Group"
        \/ heap[child].kind \notin {"Group", "Rule"}
        \/ PlatformAfterAdd(self, child)
        \/ ~IsGroupAdd(self, child)

\* A platform changes only in an add call that adds its owner.
C3_OnlyOnAdd ==
    \A ref \in Refs :
        (heap[ref].kind \in {"Group", "Rule"} /\ heap'[ref].platform # heap[ref].platform)
            => \E self \in Refs : IsGroupAdd(self, ref)

\* C3: Group.add_group and Group.add_rule give a child without a platform of
\* its own (None or empty) the platform P of the parent; a child that has its
\* own platform keeps it, and so does any child of a parent without platform.
\* The platform is set in the add call only: no later step, such as a later
\* change of the parent's platform, changes it.
C3_PlatformInheritance == [][C3_AddStep /\ C3_OnlyOnAdd]_vars

\* A rule was added to a group without platform, which then got a platform
\* from its own parent: the rule still has none.
C3_Witness ==
    \E gp, g, r \in Refs :
        /\ heap[gp].kind = "Group" /\ heap[g].kind = "Group" /\ heap[r].kind = "Rule"
        /\ heap[g].id_ \in DOMAIN heap[gp].groups /\ heap[gp].groups[heap[g].id_] = g
        /\ heap[r].id_ \in DOMAIN heap[g].rules /\ heap[g].rules[heap[r].id_] = r
        /\ HasPlatform(heap, gp) /\ heap[g].platform = heap[gp].platform
        /\ heap[r].platform = None

\* ----------------------------------------------------------------- C11
Maps == {"values", "groups", "rules"}

\* The class of the entities the map holds.
KindOf(map) ==
    CASE map = "values" -> "Value" [] map = "groups" -> "Group" [] map = "rules" -> "Rule"

\* self.add_value(child), self.add_group(child) or self.add_rule(child), by the map
AddTo(map, self, child) ==
    CASE map = "values" -> add_value(heap, self, child)
      [] map = "groups" -> add_group(heap, self, child)
      [] map = "rules" -> add_rule(heap, self, child)

\* The step is the call of the add method of map on self with child: it
\* leaves what that call leaves, an exception included.
IsAdd(map, self, child) ==
    /\ Len(heap') = Len(heap)
    /\ \A other \in Maps \ {map} : heap'[self][other] = heap[self][other]
    /\ ApiCall(AddTo(map, self, child))

\* The map m with the entry of id set to child, whatever it held for id.
LastWins(m, id, child) == [k \in DOMAIN m \cup {id} |-> IF k = id THEN child ELSE m[k]]

\* An add call of an entity raises nothing and leaves the map with the entity
\* under its id, in place of what the id held, and every other entry as it was.
C11_AddStep ==
    \A map \in Maps :
        \A self \in RefsOfKind({"Benchmark", "Group"}), child \in RefsOfKind({KindOf(map)}) :
            (child # self /\ IsAdd(map, self, child)) =>
                /\ err' = ""
                /\ heap'[self][map] = LastWins(heap[self][map], heap[child].id_, child)
                /\ Cardinality(DOMAIN heap'[self][map])
                      = Cardinality(DOMAIN heap[self][map] \cup {heap[child].id_})
                /\ \A o \in RefsOfKind({"Benchmark", "Group"}) \ {self} :
                      \A m \in Maps : heap'[o][m] = heap[o][m]

\* Adding None raises nothing and changes nothing.
C11_AddNone ==
    \A map \in Maps :
        \A self \in RefsOfKind({"Benchmark", "Group"}) :
            AddTo(map, self, NoneRef) = HeapResult(heap)

\* Every entry of a map is under the id of the entity it holds (the seed of
\* Benchmark.__init__ aside), so a map has one entry for each id added.
C11_IdKeyed ==
    \A self \in RefsOfKind({"Benchmark", "Group"}) :
        \A map \in Maps :
            \A id \in DOMAIN heap[self][map] :
                heap[self][map][id] # NoneRef =>
                    /\ heap[self][map][id] \in Refs
                    /\ heap[heap[self][map][id]].id_ = id

\* C11: after any sequence of add_value, add_group and add_rule calls on a
\* Benchmark or a Group each map holds, for every id added, the entity of the
\* last add call with that id: a call with an id the map already holds raises
\* nothing and replaces the entry, so the entries are as many as the distinct
\* ids; a call with None changes nothing.
C11_LastWriteWins == [](C11_AddNone /\ C11_IdKeyed) /\ [][C11_AddStep]_vars

\* The first group "a" (which declares no platform) has the platform of the
\* group self, so it was added to self; the map of self holds the second
\* group "a" under that id, which was therefore added after it.
C11_Witness ==
    \E self, c1, c2 \in Refs :
        /\ heap[self].kind = "Group" /\ heap[c1].kind = "Group" /\ heap[c2].kind = "Group"
        /\ c1 # c2 /\ c1 # self /\ c2 # self
        /\ heap[c1].id_ = heap[c2].id_
        /\ heap[c1].file = 2
        /\ HasPlatform(heap, self) /\ heap[c1].platform = heap[self].platform
        /\ DOMAIN heap[self].groups = {heap[c2].id_}
        /\ heap[self].groups[heap[c2].id_] = c2

\* ----------------------------------------------------------------- C12
\* C12 (as claimed): Group.add_group and Group.add_rule give a child whose
\* prodtype is the default "all" the prodtype of a parent whose prodtype is
\* not "all".
C12_Original ==
    [][\A self, child \in Refs :
          \/ heap[self].kind # "Group"
          \/ heap[child].kind \notin {"Group", "Rule"}
          \/ ~(heap[child].prodtype = "all" /\ heap[self].prodtype # "all")
          \/ heap'[child].prodtype = heap[self].prodtype
          \/ ~IsGroupAdd(self, child)]_vars

\* ----------------------------------------------- claims on the directory run
\* The places in trace of the event e.
Where(e) == {k \in DOMAIN trace : trace[k] = e}

Happened(e) == Where(e) # {}

\* The places in trace of what was done with the files of directory d that
\* have the extension ext: printed, parsed, added.
FileEvents(d, ext) == {k \in DOMAIN trace : trace[k].path[1] = d /\ trace[k].path[2] = ext}

\* The descriptor was handed on: added to the group in a build, printed in list-inputs.
Attached(k) == trace[k].op \in {"add_value", "add_rule", "print"}

BothListed(d) == dirs[d].listed /\ dirs[d].benchmark_file /\ dirs[d].group_file

\* Once a directory with both descriptors is listed nothing more is done: the
\* listing is the last thing of the run, which is about to fail or has failed.
C2_NothingAfterListing ==
    \A k \in DOMAIN trace :
        (trace[k].op = "listdir" /\ BothListed(trace[k].path[1])) =>
            /\ k = Len(trace)
            /\ IF stack = <<>> THEN err = MultipleDescriptorsError
               ELSE err = "" /\ Top.dir = trace[k].path[1] /\ Top.pc = "load"

\* The call for a directory with both descriptors changes no object.
C2_FailingCall ==
    /\ Running("listdir") => heap' = heap
    /\ (Running("load") /\ BothListed(Top.dir)) =>
            /\ err' = MultipleDescriptorsError
            /\ stack' = <<>>
            /\ heap' = heap
            /\ trace' = trace

\* C2: add_from_directory on a directory that holds both benchmark.yml and
\* group.yml fails before it parses or prints a descriptor of the directory,
\* before it attaches a node to the parent and before it enters a
\* subdirectory, and leaves the maps of the parent as they were.
C2_MultipleDescriptors == []C2_NothingAfterListing /\ [][C2_FailingCall]_vars

\* The run failed on a subdirectory with both descriptors, under a parent
\* group that was built.
C2_Witness ==
    /\ err = MultipleDescriptorsError
    /\ trace # <<>>
    /\ trace[Len(trace)].op = "listdir"
    /\ BothListed(trace[Len(trace)].path[1])
    /\ dirs[trace[Len(trace)].path[1]].parent # 0
    /\ heap # <<>>

\* The directory d had a descriptor that gave a node.
Loaded(d) == Happened(Event("loaded", DirPath(d)))

\* Every directory that gave a node is done: linked to its parent, its values
\* and rules parsed and added, its subdirectories returned from.
AllProcessed ==
    \A d \in DOMAIN dirs :
        Loaded(d) =>
            /\ dirs[d].parent # 0 => Happened(Event("link", DirPath(d)))
            /\ \A k \in 1..dirs[d].nvalues :
                  /\ Happened(Event("parse", ValuePath(d, k)))
                  /\ Happened(Event("add_value", ValuePath(d, k)))
            /\ \A k \in 1..dirs[d].nrules :
                  /\ Happened(Event("parse", RulePath(d, k)))
                  /\ Happened(Event("add_rule", RulePath(d, k)))
            /\ \A j \in 1..Len(dirs[d].subdirs) :
                  Happened(Event("return", DirPath(dirs[d].subdirs[j])))
            /\ Happened(Event("return", DirPath(d)))

C4_WrittenWhenDone ==
    /\ written \in {0, 1}
    /\ err # "" => written = 0
    /\ written = 1 =>
          /\ action = "build"
          /\ stack = <<>>
          /\ Loaded(1)
          /\ Where(Event("write", DirPath(1))) = {Len(trace) - 1}
          /\ AllProcessed

\* C4: the output file is written at most once, by the top-level call, in a
\* build, when every directory that gave a node has been processed without
\* error; after an error nothing is written and no step is taken, and no step
\* is taken after the write.
C4_SingleWrite == []C4_WrittenWhenDone /\ [][err = "" /\ written = 0]_vars

\* A build of a tree with a subdirectory and a rule has written its output.
C4_Witness ==
    /\ written = 1
    /\ \E d \in DOMAIN dirs : Happened(Event("link", DirPath(d)))
    /\ \E k \in DOMAIN trace : trace[k].op = "add_rule"

\* The errors from_yaml raises on the content of the descriptors of the tree.
TreeFiles ==
    TreeBenchmarkFiles \cup TreeGroupFiles(Names[1]) \cup TreeValueFiles(Names[1])
    \cup TreeRuleFiles(Names[1]) \cup TreeProfileFiles(Names[1])

SchemaErrors == {TreeParsed[f].error : f \in {g \in TreeFiles : TreeParsed[g].status = "error"}}

\* C5 (as claimed): a list-inputs run does not fail with an error raised on
\* the content of a descriptor.
C5_Original == action = "list-inputs" => err \notin SchemaErrors

\* A directory is linked into its parent before any of its values is handled.
C10_LinkBeforeValues ==
    \A d \in DOMAIN dirs :
        \A k \in FileEvents(d, ".var") :
            dirs[d].parent # 0 => \E j \in Where(Event("link", DirPath(d))) : j < k

\* Every value of a directory is attached before one of its subdirectories is
\* entered.
C10_ValuesBeforeSubdirs ==
    \A d \in DOMAIN dirs :
        \A j \in 1..Len(dirs[d].subdirs) :
            \A k \in Where(Event("call", DirPath(dirs[d].subdirs[j]))) :
                \A v \in 1..dirs[d].nvalues :
                    \E m \in FileEvents(d, ".var") :
                        m < k /\ trace[m].path[3] = v /\ Attached(m)

\* a is d or a directory above d.
RECURSIVE IsUnder(_, _)
IsUnder(d, a) == d # 0 /\ (d = a \/ IsUnder(dirs[d].parent, a))

\* Every subdirectory of a directory has returned, and nothing is done under
\* it after its return, before a rule of the directory is handled.
C10_SubdirsBeforeRules ==
    \A d \in DOMAIN dirs :
        \A j \in 1..Len(dirs[d].subdirs) :
            \A k \in {e \in DOMAIN trace : /\ trace[e].path[1] = d
                                            /\ trace[e].path[2] \in {".rule", "rule.yml"}} :
                /\ \E m \in 1..(k - 1) : trace[m] = Event("return", DirPath(dirs[d].subdirs[j]))
                /\ \A m \in k..Len(trace) :
                      trace[m].path[1] # 0 => ~IsUnder(trace[m].path[1], dirs[d].subdirs[j])

\* C10: for every directory that gives a node, the node is linked into the
\* parent first, then all values are attached, then every subdirectory is
\* processed to its end, depth-first, and only then the rules are attached.
C10_StepOrder == C10_LinkBeforeValues /\ C10_ValuesBeforeSubdirs /\ C10_SubdirsBeforeRules

\* A directory under a parent has had a value attached, a subdirectory
\* processed and a rule attached.
C10_Witness ==
    \E d \in DOMAIN dirs :
        /\ Happened(Event("link", DirPath(d)))
        /\ \E k \in FileEvents(d, ".var") : Attached(k)
        /\ Len(dirs[d].subdirs) > 0
        /\ Happened(Event("return", DirPath(dirs[d].subdirs[1])))
        /\ \E k \in FileEvents(d, ".rule") : Attached(k)

\* ----------------------------------------------------------------- C13
\* The descriptor of directory d holds an entity: the content of its
\* group.yml or benchmark.yml is one from_yaml builds a node from.
HasNode(d) ==
    \E name \in {"group.yml", "benchmark.yml"} :
        /\ <<d, name, 0>> \in DOMAIN contents
        /\ TreeParsed[contents[<<d, name, 0>>]].status = "ok"

\* d is the top directory, or a subdirectory of a directory the traversal
\* reaches whose descriptor holds an entity.
RECURSIVE Reached(_)
Reached(d) == dirs[d].parent = 0 \/ (HasNode(dirs[d].parent) /\ Reached(dirs[d].parent))

\* The input files of the tree, by the tree alone: the descriptor of every
\* directory reached, the values and rules of those that hold an entity, and
\* the .profile files and the bash file if a benchmark is among them.
InputFiles ==
    UNION {(IF dirs[d].benchmark_file
            THEN {<<d, "benchmark.yml", 0>>, <<0, "bash_remediation_fns", 0>>}
                 \cup {<<0, ".profile", k>> :
                         k \in {j \in DOMAIN inputs.profiles :
                                  inputs.profiles_dir /\ inputs.profiles[j].kind = "Profile"}}
            ELSE {})
           \cup (IF dirs[d].group_file THEN {<<d, "group.yml", 0>>} ELSE {})
           \cup (IF HasNode(d)
                 THEN {ValuePath(d, k) : k \in 1..dirs[d].nvalues}
                      \cup {RulePath(d, k) : k \in 1..dirs[d].nrules}
                 ELSE {}) :
           d \in {e \in DOMAIN dirs : Reached(e)}}

PathsOf(op) == {trace[k].path : k \in {j \in DOMAIN trace : trace[j].op = op}}

\* The run has ended without error.
Ended == stack = <<>> /\ err = ""

\* A path printed is never one of an entry the traversal skips.
C13_NoSkippedPrinted ==
    \A p \in PathsOf("print") :
        /\ p[2] \notin {"tests", ".txt", ""}
        /\ p[1] # 0 => (Reached(p[1]) /\ dirs[p[1]].listed)

\* C13: a list-inputs run that ends prints exactly the input files of the
\* tree, and a build that ends without error reads exactly the input files of
\* the same tree, every directory reached being listed in both: the benchmark
\* descriptor, the group, value and rule descriptors (those of rule
\* directories too), the .profile files and the bash file.  No run prints the
\* path of an entry named tests, of a file of another extension, or of
\* anything under a directory whose descriptor is missing or holds no entity.
C13_ListedEqualsRead ==
    /\ C13_NoSkippedPrinted
    /\ Ended =>
          /\ \A d \in DOMAIN dirs : dirs[d].listed <=> Reached(d)
          /\ action = "list-inputs" => PathsOf("print") = InputFiles
          /\ action = "build" => PathsOf("parse") = InputFiles /\ PathsOf("print") = {}

\* A list-inputs run has ended on a tree with a benchmark, a profiles
\* directory, an entry named tests and a subdirectory with a group and a value.
C13_Witness ==
    /\ Ended /\ action = "list-inputs"
    /\ dirs[1].benchmark_file /\ dirs[1].tests /\ dirs[1].nothers = 1
    /\ <<0, ".profile", 2>> \in PathsOf("print")
    /\ \E d \in DOMAIN dirs :
          /\ d # 1
          /\ <<d, "group.yml", 0>> \in PathsOf("print")
          /\ ValuePath(d, 1) \in PathsOf("print")

\* ----------------------------------------------------------------- C14
\* The platform the descriptor at path declares (None if it declares none).
Declared(path) == TreeParsed[contents[path]].entity.platform

\* The id of the node of directory d: 'product-name' for a benchmark, the
\* base name of the directory for a group.
NodeId(d) == IF dirs[d].benchmark_file THEN "product-name" ELSE Names[d]

\* The node of directory d is in the tree under the node of the top
\* directory: those of the directories above it are, and no later
\* subdirectory of its parent gave a node of the same id (every nested
\* benchmark has the id 'product-name', and the last one added is kept).
RECURSIVE InTree(_)
InTree(d) ==
    \/ dirs[d].parent = 0
    \/ /\ InTree(dirs[d].parent)
       /\ \A e \in DOMAIN dirs :
             (e > d /\ dirs[e].parent = dirs[d].parent /\ HasNode(e))
                => NodeId(e) # NodeId(d)

\* The node of directory d in the tree under the node of the top directory,
\* which is the first object built.
RECURSIVE NodeOf(_)
NodeOf(d) == IF dirs[d].parent = 0 THEN 1 ELSE heap[NodeOf(dirs[d].parent)].groups[NodeId(d)]

\* The platform declared by the nearest Group that declares one, from
\* directory d upwards; None if there is none. A Benchmark declares none.
RECURSIVE NearestDeclared(_)
NearestDeclared(d) ==
    IF d = 0 THEN None
    ELSE IF dirs[d].group_file /\ Truthy(Declared(<<d, "group.yml", 0>>))
    THEN Declared(<<d, "group.yml", 0>>)
    ELSE NearestDeclared(dirs[d].parent)

\* A Group that has a platform holds no Group or Rule without one.
C14_ChildrenHavePlatform ==
    \A g \in RefsOfKind({"Group"}) :
        HasPlatform(heap, g) =>
            /\ \A id \in DOMAIN heap[g].groups :
                  /\ heap[heap[g].groups[id]].kind = "Group"
                  /\ HasPlatform(heap, heap[g].groups[id])
            /\ \A id \in DOMAIN heap[g].rules : HasPlatform(heap, heap[g].rules[id])

\* The tree of a build is finished: every directory is processed and the
\* top-level call is about to write it, or has written it.
TreeFinished ==
    /\ action = "build" /\ err = "" /\ heap # <<>>
    /\ stack = <<>> \/ (Len(stack) = 1 /\ Top.pc = "finish")

\* In the finished tree every Group and Rule has the platform it declares or,
\* if it declares none, that of the nearest Group above that declares one.
C14_FinishedTree ==
    TreeFinished =>
        \A d \in {e \in DOMAIN dirs : Reached(e) /\ HasNode(e) /\ InTree(e)} :
            /\ dirs[d].group_file => heap[NodeOf(d)].platform = NearestDeclared(d)
            /\ \A k \in 1..dirs[d].nrules :
                  heap[heap[NodeOf(d)].rules[Names[k]]].platform
                    = IF Truthy(Declared(RulePath(d, k))) THEN Declared(RulePath(d, k))
                      ELSE NearestDeclared(d)

\* C14: during the assembly of the tree by add_from_directory every Group
\* that has a platform holds only Groups and Rules that have one, and in the
\* finished tree of a build the platform of each Group and Rule is the one it
\* declares itself or else the one declared by its nearest ancestor Group
\* that declares one, or else none.
C14_TransitivePlatform == C14_ChildrenHavePlatform /\ C14_FinishedTree

\* A finished tree in which a group that declares no platform has the
\* platform its parent declares, and a rule of that group, which declares
\* none either, has it too.
C14_Witness ==
    /\ TreeFinished
    /\ \E d \in DOMAIN dirs :
          /\ dirs[d].parent # 0 /\ Reached(d) /\ HasNode(d) /\ dirs[d].group_file
          /\ ~Truthy(Declared(<<d, "group.yml", 0>>))
          /\ dirs[dirs[d].parent].group_file
          /\ Truthy(Declared(<<dirs[d].parent, "group.yml", 0>>))
          /\ dirs[d].nrules > 0
          /\ ~Truthy(Declared(RulePath(d, 1)))
          /\ heap[heap[NodeOf(d)].rules[Names[1]]].platform
                = Declared(<<dirs[d].parent, "group.yml", 0>>)

\* ----------------------------------------------------------------- C15
\* The call for directory d has listed it and found no descriptor, or has
\* opened the descriptor, which loads as None.
GivesNoNode(d) ==
    \/ /\ dirs[d].listed /\ ~dirs[d].benchmark_file /\ ~dirs[d].group_file
    \/ \E name \in {"group.yml", "benchmark.yml"} :
          /\ <<d, name, 0>> \in DOMAIN contents
          /\ TreeParsed[contents[<<d, name, 0>>]].status = "none"

\* The exception of the run was raised by the call for directory d itself:
\* the last thing done was to list d or to open a file of d.
RaisedIn(d) ==
    /\ err # ""
    /\ trace[Len(trace)].op \in {"listdir", "skip", "parse", "print"}
    /\ trace[Len(trace)].path[1] = d

\* C15 (as claimed): the call of add_from_directory for a directory without
\* descriptor, or whose descriptor loads as None, raises no error, parses,
\* prints and attaches none of its values and rules, enters none of its
\* subdirectories, does not link anything into the parent group and, when
\* the directory is the top one, writes no output file.
C15_Original ==
    \A d \in DOMAIN dirs :
        GivesNoNode(d) =>
            /\ ~RaisedIn(d)
            /\ FileEvents(d, ".var") = {} /\ FileEvents(d, ".rule") = {}
            /\ FileEvents(d, "rule.yml") = {}
            /\ \A j \in 1..Len(dirs[d].subdirs) :
                  /\ ~dirs[dirs[d].subdirs[j]].listed
                  /\ ~Happened(Event("call", DirPath(dirs[d].subdirs[j])))
            /\ ~Happened(Event("loaded", DirPath(d)))
            /\ ~Happened(Event("link", DirPath(d)))
            /\ \A r \in Refs : heap[r].kind = "Group" => heap[r].id_ # Names[d]
            /\ dirs[d].parent = 0 => (written = 0 /\ heap = <<>>)

====
